---- MODULE Spec2Model ----
(***************************************************************************)
(* A model of process/utils.py: the LaTeX-to-image conversion helpers.     *)
(*                                                                         *)
(*   remove_captions_from_tex, ensure_latex_document_structure             *)
(*       rewrite a source file in place (SpecText);                        *)
(*   tex_to_image                                                          *)
(*       preprocesses the source, runs the compiler and the rasterizer     *)
(*       and removes the intermediate files (SpecConv);                    *)
(*   convert_all_tex_to_images                                             *)
(*       applies tex_to_image to every *.tex of a directory (SpecBatch).   *)
(*                                                                         *)
(* File contents and file names are sequences of tokens.  A token is a     *)
(* piece of text that the program's searches never split: the markers the  *)
(* code looks for are one or two tokens long, "\n" is the line break and   *)
(* "x" or "a" stand for any other text.  Contents hold no carriage return, *)
(* so reading and writing a file in text mode do not change them.          *)
(***************************************************************************)
EXTENDS Integers, Sequences, FiniteSets

VARIABLES
    text,          \* contents of the source files: path -> sequence of tokens
    before,        \* contents of the source file when the last text call began
    lastCall,      \* the last text call: "none", "remove_captions", "ensure"
    fs,            \* the paths that exist on disk
    env,           \* what the external tools do with each source, if invoked
    pc,            \* position inside tex_to_image
    tex_file,      \* tex_to_image's argument
    output_image,  \* tex_to_image's argument
    comp,          \* the compiler's completed process, or NoProc
    rast,          \* the rasterizer's completed process, or NoProc
    compCalls,     \* compiler invocations of the current tex_to_image call
    rastCalls,     \* rasterizer invocations of the current tex_to_image call
    produced,      \* paths the rasterizer has written
    err,           \* the exception tex_to_image ended with, or NoErr
    ret,           \* the value tex_to_image returned, or NoPath
    console,       \* what has been printed
    bpc,           \* position inside convert_all_tex_to_images
    listing,       \* os.listdir(input_folder)
    todo,          \* the names of the listing the loop has not visited
    calls,         \* file name -> number of times passed to tex_to_image
    outName,       \* file name -> output image name derived for it
    outDirExists   \* whether output_folder exists

textVars  == <<text, before, lastCall>>
convVars  == <<fs, env, pc, tex_file, output_image, comp, rast, compCalls,
               rastCalls, produced, err, ret, console>>
batchVars == <<bpc, listing, todo, calls, outName, outDirExists>>
vars      == <<textVars, convVars, batchVars>>

(***************************************************************************)
(* Bounds                                                                  *)
(***************************************************************************)
MaxLen == 4

MaxNameLen == 3

MaxFiles == 2

MaxCalls == 3

(***************************************************************************)
(* Text: tokens, substring search, lines                                   *)
(***************************************************************************)
NL == "\n"

BeginDocument == <<"\\begin", "{document}">>

EndDocument == <<"\\end", "{document}">>

Caption == <<"\\caption">>

TextTokens == {"\\begin", "\\end", "{document}", "\\caption", NL, "x"}

SeqsUpTo(S, n) == UNION {[1..k -> S] : k \in 0..n}

\* Python's `pat in s`
Contains(s, pat) ==
    \E i \in 1..(Len(s) + 1) :
        /\ i + Len(pat) - 1 <= Len(s)
        /\ SubSeq(s, i, i + Len(pat) - 1) = pat

\* the position of the first line break of s, or 0
FirstNL(s) ==
    IF \E i \in 1..Len(s) : s[i] = NL
    THEN CHOOSE i \in 1..Len(s) : s[i] = NL /\ \A j \in 1..(i - 1) : s[j] # NL
    ELSE 0

RECURSIVE SplitLines(_)
\* s.split("\n"): the lines of s, without their line breaks
SplitLines(s) ==
    IF FirstNL(s) = 0 THEN <<s>>
    ELSE <<SubSeq(s, 1, FirstNL(s) - 1)>>
             \o SplitLines(SubSeq(s, FirstNL(s) + 1, Len(s)))

RECURSIVE JoinLines(_)
\* "\n".join(ls)
JoinLines(ls) ==
    IF Len(ls) = 0 THEN <<>>
    ELSE IF Len(ls) = 1 THEN ls[1]
    ELSE ls[1] \o <<NL>> \o JoinLines(Tail(ls))

HasCaption(line) == Contains(line, Caption)

(***************************************************************************)
(* remove_captions_from_tex                                                *)
(***************************************************************************)
\* One match of ^.*\\caption.*$ under re.MULTILINE: "." does not match a
\* line break, ^ and $ match at every line's ends, so a match is a whole line
\* that contains the directive.  It is replaced by the empty string; the
\* line breaks around it are not part of the match and stay.
SubLine(line) == IF HasCaption(line) THEN <<>> ELSE line

\* Faulty variant: the substitution without re.MULTILINE, where ^ and $ match
\* only at the ends of the whole text.
ReSubCaptionNoMultiline(content) ==
    IF FirstNL(content) = 0 THEN SubLine(content) ELSE content

NoCaption(line) == ~HasCaption(line)

\* Faulty variant: the matched lines taken out together with their line breaks.
ReSubCaptionDropLines(content) ==
    JoinLines(SelectSeq(SplitLines(content), NoCaption))

\* re.sub(r'^.*\\caption.*$', '', content, flags=re.MULTILINE)
ReSubCaption(content) ==
    LET ls == SplitLines(content)
    IN  JoinLines([i \in 1..Len(ls) |-> SubLine(ls[i])])

(***************************************************************************)
(* ensure_latex_document_structure                                         *)
(***************************************************************************)
Preamble ==
    << "\\documentclass{article}", NL,
       "\\usepackage{dcolumn}", NL,
       "\\usepackage{float}", NL,
       "\\usepackage{booktabs}", NL,
       "\\usepackage{graphicx}", NL,
       "\\pagestyle{empty}", NL >> \o BeginDocument \o <<NL>>

EndDocumentText == <<NL>> \o EndDocument \o <<NL>>

\* Faulty variant: the wrapper added without looking for the marker.
EnsureStructureAlways(content) == Preamble \o content \o EndDocumentText

\* Faulty variant: the preamble added, the closing marker forgotten.
EnsureStructureNoEnd(content) ==
    IF ~Contains(content, BeginDocument)
    THEN Preamble \o content
    ELSE content

\* the content the function leaves in the file
EnsureStructure(content) ==
    IF ~Contains(content, BeginDocument)
    THEN Preamble \o content \o EndDocumentText
    ELSE content

\* with open(tex_file) ... file.write(content): the file rewritten in place
RemoveCaptionsFromTex(p) ==
    /\ text' = [text EXCEPT ![p] = ReSubCaption(@)]
    /\ before' = text[p]
    /\ lastCall' = "remove_captions"
    /\ UNCHANGED console

\* the file is written only when the marker was absent; either way a line
\* is printed
EnsureLatexDocumentStructure(p) ==
    /\ text' = [text EXCEPT ![p] = EnsureStructure(@)]
    /\ before' = text[p]
    /\ lastCall' = "ensure"
    /\ console' = Append(console,
                    IF ~Contains(text[p], BeginDocument)
                    THEN <<"Adding document structure to ", p>>
                    ELSE <<"Document structure already exists in ", p>>)

(***************************************************************************)
(* File names and paths                                                    *)
(***************************************************************************)
NameTokens == {"a", ".tex", ".png"}

ExtTokens == {".tex", ".png", ".pdf", ".log", ".aux"}

\* file names: a stem first, then stems and extensions
Names == {n \in SeqsUpTo(NameTokens, MaxNameLen) : Len(n) >= 1 /\ n[1] = "a"}

\* name.endswith(ext)
EndsWith(name, ext) == Len(name) >= 1 /\ name[Len(name)] = ext

\* name.replace(old, new): every occurrence
Replace(name, old, new) ==
    [i \in 1..Len(name) |-> IF name[i] = old THEN new ELSE name[i]]

\* the position of the token holding the last dot, or 0
LastDot(name) ==
    IF \E i \in 1..Len(name) : name[i] \in ExtTokens
    THEN CHOOSE i \in 1..Len(name) :
             name[i] \in ExtTokens /\ \A j \in (i + 1)..Len(name) : name[j] \notin ExtTokens
    ELSE 0

\* os.path.splitext(name)[0]: a leading dot starts no extension
SplitExtRoot(name) ==
    IF LastDot(name) > 1 THEN SubSeq(name, 1, LastDot(name) - 1) ELSE name

\* os.path.join(dir, name); os.path.dirname and os.path.basename are .dir, .name
Path(dir, name) == [dir |-> dir, name |-> name]

NoPath == [dir |-> "", name |-> <<>>]

TexNames == {n \in Names : EndsWith(n, ".tex")}

PngNames == {n \in Names : EndsWith(n, ".png")}

(***************************************************************************)
(* The external tools                                                      *)
(***************************************************************************)
NoProc == [cmd |-> "", returncode |-> 0, stdout |-> "", stderr |-> ""]

NoErr == [type |-> "", msg |-> <<>>]

Diagnostics == {"! Missing } inserted.", "! Emergency stop."}

\* what a tool does when invoked on a source: exit 0 with its output file
\* written, exit 0 without it, a non-zero exit status, or death by a signal
CompOutcomes == {"ok_pdf", "ok_nopdf", "fail", "killed"}

RastOutcomes == {"ok_img", "ok_noimg", "fail", "killed"}

\* the completed process's returncode: negative for a signal
ReturnCode(outcome) ==
    IF outcome = "fail" THEN 1 ELSE IF outcome = "killed" THEN -9 ELSE 0

Envs == [comp : CompOutcomes, rast : RastOutcomes]

\* the compiler names its output after the source without its final extension
JobFile(tex, ext) == Path(tex.dir, Append(SplitExtRoot(tex.name), ext))

CompilerWrites(tex, outcome) ==
    IF outcome = "ok_pdf" THEN {JobFile(tex, ".pdf"), JobFile(tex, ".log"), JobFile(tex, ".aux")}
    ELSE IF outcome = "ok_nopdf" THEN {JobFile(tex, ".log"), JobFile(tex, ".aux")}
    ELSE IF outcome = "fail" THEN {JobFile(tex, ".log")}
    ELSE {}

RasterizerWrites(out, outcome) == IF outcome = "ok_img" THEN {out} ELSE {}

StatusText(rc) == IF rc = 0 THEN "0" ELSE "1"

SignalText(sig) == IF sig = 9 THEN "<Signals.SIGKILL: 9>" ELSE "unknown signal"

\* str(e) of a subprocess.CalledProcessError: the command and the exit
\* status, or the signal; the captured output is not part of it
StrCalledProcessError(p) ==
    IF p.returncode < 0
    THEN <<"Command '", p.cmd, "' died with ", SignalText(0 - p.returncode), ".">>
    ELSE <<"Command '", p.cmd, "' returned non-zero exit status ", StatusText(p.returncode), ".">>

(***************************************************************************)
(* tex_to_image                                                            *)
(***************************************************************************)
\* pdf_file = os.path.join(tex_dir, os.path.basename(tex_file).replace('.tex', '.pdf'))
PdfFile(tex) == Path(tex.dir, Replace(tex.name, ".tex", ".pdf"))

\* base_name = os.path.splitext(os.path.basename(tex_file))[0]
BaseName(tex) == SplitExtRoot(tex.name)

\* the paths of aux_files, joined to tex_dir
AuxFilePaths(tex) ==
    {Path(tex.dir, Append(BaseName(tex), ext)) : ext \in {".pdf", ".log", ".aux"}}

\* Faulty variant: the captured stderr put into the message.
CompileErrorMsgWithStderr(p) ==
    <<"Error compiling LaTeX file: ">> \o StrCalledProcessError(p) \o <<p.stderr>>

CompileErrorMsg(p) == <<"Error compiling LaTeX file: ">> \o StrCalledProcessError(p)

RasterErrorMsg(p) == <<"Error converting PDF to image: ">> \o StrCalledProcessError(p)

callVars == <<tex_file, output_image, env>>

T_RemoveCaptions ==
    /\ pc = "start"
    /\ RemoveCaptionsFromTex(tex_file)
    /\ pc' = "ensure"
    /\ UNCHANGED <<fs, comp, rast, compCalls, rastCalls, produced, err, ret, callVars, batchVars>>

T_EnsureStructure ==
    /\ pc = "ensure"
    /\ EnsureLatexDocumentStructure(tex_file)
    /\ pc' = "compile"
    /\ UNCHANGED <<fs, comp, rast, compCalls, rastCalls, produced, err, ret, callVars, batchVars>>

\* subprocess.run(['pdflatex', ...]) has run and exited
T_RunCompiler ==
    /\ pc = "compile"
    /\ \E d \in Diagnostics :
         comp' = [cmd |-> "pdflatex",
                  returncode |-> ReturnCode(env[tex_file].comp),
                  stdout |-> "pdflatex log",
                  stderr |-> IF ReturnCode(env[tex_file].comp) # 0 THEN d ELSE ""]
    /\ fs' = fs \cup CompilerWrites(tex_file, env[tex_file].comp)
    /\ compCalls' = compCalls + 1
    /\ pc' = "compiled"
    /\ UNCHANGED <<textVars, rast, rastCalls, produced, err, ret, console, callVars, batchVars>>

T_CompileOk ==
    /\ pc = "compiled"
    /\ comp.returncode = 0
    /\ console' = Append(console, <<comp.stdout>>)
    /\ pc' = "check_pdf"
    /\ UNCHANGED <<textVars, fs, comp, rast, compCalls, rastCalls, produced, err, ret, callVars, batchVars>>

\* Faulty variant: the compiler's failure printed and then ignored.
T_CompileErrorSwallowed ==
    /\ pc = "compiled"
    /\ comp.returncode # 0
    /\ console' = Append(console, <<comp.stderr>>)
    /\ pc' = "check_pdf"
    /\ UNCHANGED <<textVars, fs, comp, rast, compCalls, rastCalls, produced, err, ret, callVars, batchVars>>

T_CompileError ==
    /\ pc = "compiled"
    /\ comp.returncode # 0
    /\ console' = Append(console, <<comp.stderr>>)
    /\ err' = [type |-> "RuntimeError", msg |-> CompileErrorMsg(comp)]
    /\ pc' = "raised"
    /\ UNCHANGED <<textVars, fs, comp, rast, compCalls, rastCalls, produced, ret, callVars, batchVars>>

T_PdfMissing ==
    /\ pc = "check_pdf"
    /\ PdfFile(tex_file) \notin fs
    /\ err' = [type |-> "FileNotFoundError",
               msg |-> <<"PDF file ", PdfFile(tex_file), " was not created.">>]
    /\ pc' = "raised"
    /\ UNCHANGED <<textVars, fs, comp, rast, compCalls, rastCalls, produced, ret, console, callVars, batchVars>>

T_PdfFound ==
    /\ pc = "check_pdf"
    /\ PdfFile(tex_file) \in fs
    /\ pc' = "raster"
    /\ UNCHANGED <<textVars, fs, comp, rast, compCalls, rastCalls, produced, err, ret, console, callVars, batchVars>>

\* subprocess.run(['magick', ...]) has run and exited
T_RunRasterizer ==
    /\ pc = "raster"
    /\ \E d \in Diagnostics :
         rast' = [cmd |-> "magick",
                  returncode |-> ReturnCode(env[tex_file].rast),
                  stdout |-> "",
                  stderr |-> IF ReturnCode(env[tex_file].rast) # 0 THEN d ELSE ""]
    /\ fs' = fs \cup RasterizerWrites(output_image, env[tex_file].rast)
    /\ produced' = produced \cup RasterizerWrites(output_image, env[tex_file].rast)
    /\ rastCalls' = rastCalls + 1
    /\ pc' = "rastered"
    /\ UNCHANGED <<textVars, comp, compCalls, err, ret, console, callVars, batchVars>>

T_RasterOk ==
    /\ pc = "rastered"
    /\ rast.returncode = 0
    /\ console' = Append(console, <<rast.stdout>>)
    /\ pc' = "check_image"
    /\ UNCHANGED <<textVars, fs, comp, rast, compCalls, rastCalls, produced, err, ret, callVars, batchVars>>

\* Faulty variant: the intermediate files removed before the error is raised.
T_RasterErrorCleanup ==
    /\ pc = "rastered"
    /\ rast.returncode # 0
    /\ console' = Append(console, <<rast.stderr>>)
    /\ err' = [type |-> "RuntimeError", msg |-> RasterErrorMsg(rast)]
    /\ fs' = fs \ AuxFilePaths(tex_file)
    /\ pc' = "raised"
    /\ UNCHANGED <<textVars, comp, rast, compCalls, rastCalls, produced, ret, callVars, batchVars>>

T_RasterError ==
    /\ pc = "rastered"
    /\ rast.returncode # 0
    /\ console' = Append(console, <<rast.stderr>>)
    /\ err' = [type |-> "RuntimeError", msg |-> RasterErrorMsg(rast)]
    /\ pc' = "raised"
    /\ UNCHANGED <<textVars, fs, comp, rast, compCalls, rastCalls, produced, ret, callVars, batchVars>>

T_ImageMissing ==
    /\ pc = "check_image"
    /\ output_image \notin fs
    /\ err' = [type |-> "FileNotFoundError",
               msg |-> <<"Image file ", output_image, " was not created.">>]
    /\ pc' = "raised"
    /\ UNCHANGED <<textVars, fs, comp, rast, compCalls, rastCalls, produced, ret, console, callVars, batchVars>>

\* the image exists: remove the aux files that exist and return
T_CleanupReturn ==
    /\ pc = "check_image"
    /\ output_image \in fs
    /\ fs' = fs \ AuxFilePaths(tex_file)
    /\ ret' = output_image
    /\ pc' = "returned"
    /\ UNCHANGED <<textVars, comp, rast, compCalls, rastCalls, produced, err, console, callVars, batchVars>>

TexToImage ==
    \/ T_RemoveCaptions
    \/ T_EnsureStructure
    \/ T_RunCompiler
    \/ T_CompileOk
    \/ T_CompileError
    \/ T_PdfMissing
    \/ T_PdfFound
    \/ T_RunRasterizer
    \/ T_RasterOk
    \/ T_RasterError
    \/ T_ImageMissing
    \/ T_CleanupReturn

(***************************************************************************)
(* SpecText: the two text functions called on one file                     *)
(***************************************************************************)
DocPath == Path("in", <<"a", ".tex">>)

NoCall ==
    /\ pc = "idle"
    /\ tex_file = NoPath
    /\ output_image = NoPath
    /\ comp = NoProc
    /\ rast = NoProc
    /\ compCalls = 0
    /\ rastCalls = 0
    /\ produced = {}
    /\ err = NoErr
    /\ ret = NoPath
    /\ console = <<>>

NoBatch ==
    /\ bpc = "off"
    /\ listing = {}
    /\ todo = {}
    /\ calls = <<>>
    /\ outName = <<>>
    /\ outDirExists = TRUE

InitText ==
    /\ \E c \in SeqsUpTo(TextTokens, MaxLen) : text = [p \in {DocPath} |-> c]
    /\ before = text[DocPath]
    /\ lastCall = "none"
    /\ fs = {DocPath}
    /\ env = <<>>
    /\ NoCall
    /\ NoBatch

CallRemoveCaptions ==
    /\ RemoveCaptionsFromTex(DocPath)
    /\ UNCHANGED <<fs, env, pc, tex_file, output_image, comp, rast, compCalls,
                   rastCalls, produced, err, ret, batchVars>>

CallEnsureStructure ==
    /\ Len(console) < MaxCalls
    /\ EnsureLatexDocumentStructure(DocPath)
    /\ UNCHANGED <<fs, env, pc, tex_file, output_image, comp, rast, compCalls,
                   rastCalls, produced, err, ret, batchVars>>

NextText == CallRemoveCaptions \/ CallEnsureStructure

SpecText == InitText /\ [][NextText]_vars

(***************************************************************************)
(* SpecConv: one call of tex_to_image                                      *)
(***************************************************************************)
TexSamples ==
    { <<"x">>,
      <<"\\caption", NL, "x">>,
      <<"\\begin", "{document}", NL, "x", NL, "\\end", "{document}">> }

\* files a previous run may have left behind
Leftovers(tex, out) == AuxFilePaths(tex) \cup {PdfFile(tex), out}

InitConv ==
    /\ \E n \in TexNames : tex_file = Path("in", n)
    /\ \E d \in {"in", "out"}, n \in PngNames : output_image = Path(d, n)
    /\ \E c \in TexSamples : text = [p \in {tex_file} |-> c]
    /\ before = text[tex_file]
    /\ lastCall = "none"
    /\ \E old \in SUBSET Leftovers(tex_file, output_image) : fs = {tex_file} \cup old
    /\ \E e \in Envs : env = [p \in {tex_file} |-> e]
    /\ pc = "start"
    /\ comp = NoProc
    /\ rast = NoProc
    /\ compCalls = 0
    /\ rastCalls = 0
    /\ produced = {}
    /\ err = NoErr
    /\ ret = NoPath
    /\ console = <<>>
    /\ NoBatch

SpecConv == InitConv /\ [][TexToImage]_vars

(***************************************************************************)
(* convert_all_tex_to_images                                               *)
(***************************************************************************)
InDir == "in"

OutDir == "out"

\* output_image_name = file_name.replace('.tex', '.png')
OutputImageName(file_name) == Replace(file_name, ".tex", ".png")

\* os.makedirs(output_folder) if it is absent; os.listdir(input_folder)
B_Start ==
    /\ bpc = "start"
    /\ outDirExists' = TRUE
    /\ todo' = listing
    /\ bpc' = "loop"
    /\ UNCHANGED <<textVars, convVars, listing, calls, outName>>

\* a name of the listing that does not end in .tex is passed over
B_Skip ==
    /\ bpc = "loop"
    /\ \E file_name \in todo :
         /\ ~EndsWith(file_name, ".tex")
         /\ todo' = todo \ {file_name}
    /\ UNCHANGED <<textVars, convVars, bpc, listing, calls, outName, outDirExists>>

\* a name that ends in .tex: tex_to_image(input_file, output_image_path, ...)
B_Call ==
    /\ bpc = "loop"
    /\ \E file_name \in todo :
         /\ EndsWith(file_name, ".tex")
         /\ todo' = todo \ {file_name}
         /\ tex_file' = Path(InDir, file_name)
         /\ output_image' = Path(OutDir, OutputImageName(file_name))
         /\ outName' = [n \in DOMAIN outName \cup {file_name} |->
                           IF n = file_name THEN OutputImageName(file_name) ELSE outName[n]]
         /\ calls' = [calls EXCEPT ![file_name] = @ + 1]
    /\ pc' = "start"
    /\ comp' = NoProc
    /\ rast' = NoProc
    /\ compCalls' = 0
    /\ rastCalls' = 0
    /\ err' = NoErr
    /\ ret' = NoPath
    /\ bpc' = "in_call"
    /\ UNCHANGED <<textVars, fs, env, produced, console, listing, outDirExists>>

\* print(f"Converted: {input_file} to {image_path}")
B_Converted ==
    /\ bpc = "in_call"
    /\ pc = "returned"
    /\ console' = Append(console, <<"Converted: ", tex_file, " to ", ret>>)
    /\ pc' = "idle"
    /\ bpc' = "loop"
    /\ UNCHANGED <<textVars, fs, env, tex_file, output_image, comp, rast, compCalls,
                   rastCalls, produced, err, ret, listing, todo, calls, outName, outDirExists>>

\* except Exception as e: print(f"Error processing {file_name}: {e}")
B_Except ==
    /\ bpc = "in_call"
    /\ pc = "raised"
    /\ console' = Append(console, <<"Error processing ", tex_file.name, ": ">> \o err.msg)
    /\ pc' = "idle"
    /\ bpc' = "loop"
    /\ UNCHANGED <<textVars, fs, env, tex_file, output_image, comp, rast, compCalls,
                   rastCalls, produced, err, ret, listing, todo, calls, outName, outDirExists>>

\* the listing is exhausted: the function returns
B_Return ==
    /\ bpc = "loop"
    /\ todo = {}
    /\ bpc' = "done"
    /\ UNCHANGED <<textVars, convVars, listing, todo, calls, outName, outDirExists>>

ConvertAllTexToImages ==
    \/ B_Start
    \/ B_Skip
    \/ B_Call
    \/ B_Converted
    \/ B_Except
    \/ B_Return

TexPaths(names) == {Path(InDir, n) : n \in {m \in names : EndsWith(m, ".tex")}}

InitBatch ==
    /\ listing \in {l \in SUBSET Names : Cardinality(l) <= MaxFiles}
    /\ text \in [TexPaths(listing) -> TexSamples]
    /\ before = <<>>
    /\ lastCall = "none"
    /\ fs = {Path(InDir, n) : n \in listing}
    /\ env \in [TexPaths(listing) -> Envs]
    /\ NoCall
    /\ bpc = "start"
    /\ todo = {}
    /\ calls = [n \in listing |-> 0]
    /\ outName = [n \in {} |-> <<>>]
    /\ outDirExists \in BOOLEAN

SpecBatch == InitBatch /\ [][TexToImage \/ ConvertAllTexToImages]_vars

(***************************************************************************)
(* Properties of the text functions (SpecText)                             *)
(***************************************************************************)
Doc == text[DocPath]

RECURSIVE IsSubseq(_, _)
\* a is b with some elements left out
IsSubseq(a, b) ==
    IF Len(a) = 0 THEN TRUE
    ELSE IF Len(b) = 0 THEN FALSE
    ELSE IF a[1] = b[1] THEN IsSubseq(Tail(a), Tail(b))
    ELSE IsSubseq(a, Tail(b))

CaptionLines(content) ==
    {i \in 1..Len(SplitLines(content)) : HasCaption(SplitLines(content)[i])}

\* C6: on a text that already holds the body-begin marker,
\* ensure_latex_document_structure leaves the content as it was, however
\* often it is applied.
C6_MarkerPresentNoOp ==
    (lastCall = "ensure" /\ Contains(before, BeginDocument)) => Doc = before

C6_Witness ==
    /\ lastCall = "ensure"
    /\ Contains(before, BeginDocument)
    /\ Len(before) <= MaxLen
    /\ Len(console) >= 2
    /\ Doc = before

\* C7: on a text without the body-begin marker, afterwards the file holds
\* the original content as one contiguous piece, the begin marker before it
\* and the end marker after it.
C7_MarkerAbsentWrapped ==
    (lastCall = "ensure" /\ ~Contains(before, BeginDocument)) =>
        \E i \in 0..Len(Doc) :
            /\ i + Len(before) <= Len(Doc)
            /\ SubSeq(Doc, i + 1, i + Len(before)) = before
            /\ Contains(SubSeq(Doc, 1, i), BeginDocument)
            /\ Contains(SubSeq(Doc, i + Len(before) + 1, Len(Doc)), EndDocument)

C7_Witness ==
    /\ lastCall = "ensure"
    /\ ~Contains(before, BeginDocument)
    /\ Contains(before, EndDocument)
    /\ Doc = Preamble \o before \o EndDocumentText

\* C8: after remove_captions_from_tex no line holds the caption directive,
\* and the lines that did not hold it are all still there, unchanged and in
\* their order.
C8_CaptionLinesGone ==
    lastCall = "remove_captions" =>
        LET now == SplitLines(Doc)
        IN  /\ \A i \in 1..Len(now) : ~HasCaption(now[i])
            /\ IsSubseq(SelectSeq(SplitLines(before), NoCaption), now)

C8_Witness ==
    /\ lastCall = "remove_captions"
    /\ Cardinality(CaptionLines(before)) >= 1
    /\ \E i \in 1..Len(SplitLines(before)) :
           /\ ~HasCaption(SplitLines(before)[i])
           /\ Len(SplitLines(before)[i]) >= 1
           /\ i - 1 \in CaptionLines(before)
    /\ CaptionLines(Doc) = {}

Ended == pc \in {"returned", "raised"}

\* the tool whose non-zero exit ended the call
FailedTool == IF rast # NoProc THEN rast ELSE comp

\* C1, as stated: when the compiler succeeds and writes <base>.pdf and the
\* rasterizer succeeds and writes the output image, tex_to_image returns the
\* output image path, the image exists and none of <base>.pdf, <base>.log,
\* <base>.aux is left.
C1_SuccessReturnsAndCleans ==
    (Ended /\ env[tex_file].comp = "ok_pdf" /\ env[tex_file].rast = "ok_img") =>
        /\ pc = "returned"
        /\ ret = output_image
        /\ output_image \in fs
        /\ AuxFilePaths(tex_file) \cap fs = {}

\* C3: once the compiler has exited non-zero, the call is at its error
\* handler or has ended with a RuntimeError; the compiler was invoked once,
\* the rasterizer not at all, and no image has been written.
C3_CompilerFailureIsFinal ==
    (comp # NoProc /\ comp.returncode # 0) =>
        /\ pc \in {"compiled", "raised"}
        /\ (pc = "raised" => err.type = "RuntimeError")
        /\ compCalls = 1
        /\ rastCalls = 0
        /\ produced = {}

C3_Witness ==
    /\ pc = "raised"
    /\ comp.returncode = 1
    /\ err.type = "RuntimeError"
    /\ PdfFile(tex_file) \in fs
    /\ compCalls = 1
    /\ rastCalls = 0

\* C4, as stated: the RuntimeError raised for a tool's non-zero exit holds
\* the diagnostic output captured from that tool.
C4_ErrorHoldsDiagnostic ==
    (pc = "raised" /\ err.type = "RuntimeError") =>
        \E i \in 1..Len(err.msg) : err.msg[i] = FailedTool.stderr

\* C4, amended: the RuntimeError's message is the step's fixed prefix
\* followed by the text of the CalledProcessError, which names the command
\* and its exit status (or the signal that ended it); the diagnostic output
\* captured from the tool is the last thing printed before the error is
\* raised and is no part of the message.
C4_DiagnosticPrintedNotRaised ==
    (pc = "raised" /\ err.type = "RuntimeError") =>
        /\ err.msg = << IF FailedTool.cmd = "pdflatex"
                        THEN "Error compiling LaTeX file: "
                        ELSE "Error converting PDF to image: ",
                        "Command '", FailedTool.cmd,
                        IF FailedTool.returncode < 0
                        THEN "' died with "
                        ELSE "' returned non-zero exit status ",
                        IF FailedTool.returncode < 0
                        THEN "<Signals.SIGKILL: 9>"
                        ELSE "1",
                        "." >>
        /\ console[Len(console)] = <<FailedTool.stderr>>
        /\ \A i \in 1..Len(err.msg) : err.msg[i] # FailedTool.stderr

C4_Witness ==
    /\ pc = "raised"
    /\ err.type = "RuntimeError"
    /\ comp.returncode = 1
    /\ comp.stderr \in Diagnostics
    /\ console[Len(console)] = <<comp.stderr>>

\* C5: the step that ends tex_to_image with an error deletes nothing: every
\* file that exists when the failure is found exists after the call.
C5_FailureDeletesNothing ==
    [][pc' = "raised" => fs \subseteq fs']_vars

C5_Witness ==
    /\ pc = "raised"
    /\ rast # NoProc
    /\ AuxFilePaths(tex_file) \subseteq fs
    /\ output_image \in fs

(***************************************************************************)
(* Properties of convert_all_tex_to_images (SpecBatch)                     *)
(***************************************************************************)
TexIn(names) == {n \in names : EndsWith(n, ".tex")}

IsErrorEntry(e) == e[1] = "Error processing "

IsConvertedEntry(e) == e[1] = "Converted: "

ErrorLog == SelectSeq(console, IsErrorEntry)

ConvertedLog == SelectSeq(console, IsConvertedEntry)

\* a source both tools accept; a source the compiler rejects
ValidSource(n) == env[Path(InDir, n)] = [comp |-> "ok_pdf", rast |-> "ok_img"]

InvalidSource(n) == env[Path(InDir, n)].comp = "fail"

\* when the batch has returned, every name ending in .tex was passed to
\* tex_to_image once, no other name was, and each call was reported
BatchVisitsEveryTexOnce ==
    bpc = "done" =>
        /\ \A n \in listing : calls[n] = IF EndsWith(n, ".tex") THEN 1 ELSE 0
        /\ Len(ErrorLog) + Len(ConvertedLog) = Cardinality(TexIn(listing))
        /\ \A i \in 1..Len(ErrorLog) : ErrorLog[i][2] \in TexIn(listing)

\* C2, as stated: a failure never stops the batch, every *.tex is tried
\* once and every failure is logged; and a directory with one valid and one
\* invalid source gives exactly one output image and one logged error.
C2_BatchSurvivesFailures ==
    /\ BatchVisitsEveryTexOnce
    /\ (/\ bpc = "done"
        /\ \E v \in listing, i \in listing :
               TexIn(listing) = {v, i} /\ ValidSource(v) /\ InvalidSource(i))
       => (Cardinality(produced) = 1 /\ Len(ErrorLog) = 1)

\* C10, as stated: the output image name is the file name with only its
\* final .tex replaced by .png, so different file names get different
\* output image names.
C10_OutputNameByExtension ==
    /\ \A n \in DOMAIN outName :
           outName[n] = Append(SubSeq(n, 1, Len(n) - 1), ".png")
    /\ \A n \in DOMAIN outName, m \in DOMAIN outName :
           n # m => outName[n] # outName[m]

====
